---------------------------- MODULE Spec2Model ----------------------------
(***************************************************************************)
(* A model of package notebook (notebook.go): the in-memory Notebook       *)
(* (Title, Output, cells, headers, console), its mutators AddContent,      *)
(* AddHeader, Print/Printf/Println, and Render/Close, which execute the    *)
(* html/template nbTemplate into a sink.                                   *)
(*                                                                         *)
(* Texts are sequences of tokens.  A token is either one character with a  *)
(* special meaning for the HTML escaper, or a run of other characters, so  *)
(* that escaping is computed token by token as html/template computes it   *)
(* byte by byte.  What Execute hands to the sink is a sequence of writes,  *)
(* one per text node and one per action of the template, each a text.      *)
(* Bytes() concatenates them into the byte stream the sink receives.       *)
(***************************************************************************)
EXTENDS Naturals, Sequences, FiniteSets, TLC

VARIABLES
    Title,      \* Notebook.Title
    Output,     \* Notebook.Output
    cells,      \* Notebook.cells: sequence of [Title, content]
    headers,    \* Notebook.headers: function from id to fragment
    console,    \* Notebook.console: the bytes.Buffer's content
    out,        \* the writes accepted by the sink of the latest Render/Close
                \* (for Close: the content of the file at Output)
    err,        \* the error returned by the latest Render/Close (<<>> is nil)
    op,         \* the latest call: "New", "Update" (a mutator), "Render", "Close"
    ioFail,     \* the I/O steps the environment failed in the latest Render/Close
    cellCalls,  \* history: the AddContent calls, in call order
    hdrCalls,   \* history: the AddHeader calls, in call order
    printed     \* history: the Print/Printf/Println calls and the text each produced

doc  == <<Title, Output, cells, headers, console>>
hist == <<cellCalls, hdrCalls, printed>>
vars == <<Title, Output, cells, headers, console, out, err, op, ioFail,
          cellCalls, hdrCalls, printed>>

----------------------------------------------------------------------------
(* Bounds of the model. *)

\* The number of AddContent, AddHeader and Print/Printf/Println calls in a run.
MaxCalls == 3
\* A sink rejects its k-th write for some k in 1..MaxFailAt, or accepts all.
MaxFailAt == 1

----------------------------------------------------------------------------
(* Texts. *)

RECURSIVE Concat(_)
\* The concatenation of a sequence of texts.
Concat(ts) == IF ts = <<>> THEN <<>> ELSE Head(ts) \o Concat(Tail(ts))

RECURSIVE Str(_)
\* string(t): the bytes of a text, as one string.
Str(t) == IF t = <<>> THEN "" ELSE Head(t) \o Str(Tail(t))

\* The byte stream a sink received: its writes, concatenated.
Bytes(ws) == Str(Concat(ws))

Last(s) == s[Len(s)]

----------------------------------------------------------------------------
(* html/template's escapers. *)

\* htmlReplacementTable (html/template/html.go).  NUL is not in the inputs.
htmlReplacementTable ==
    ("\"" :> "&#34;") @@ ("&" :> "&amp;") @@ ("'" :> "&#39;") @@
    ("+" :> "&#43;") @@ ("<" :> "&lt;") @@ (">" :> "&gt;")

\* htmlReplacer: every byte of the table replaced by its entity.
htmlReplacer(s) ==
    [i \in 1..Len(s) |->
        IF s[i] \in DOMAIN htmlReplacementTable
        THEN htmlReplacementTable[s[i]] ELSE s[i]]

\* A mutant of htmlEscaper: text/template's behaviour, nothing is escaped.
htmlEscaperNone(v) == v.s

\* _html_template_htmlescaper, which the escaper appends to every pipeline
\* in element content: a value of type template.HTML passes verbatim, any
\* other value is printed and its bytes replaced.  The value of a pipeline is
\* [typ |-> "HTML" or "string", s |-> text].  In <title> the escaper is
\* _html_template_rcdataescaper, which treats a plain string the same way.
htmlEscaper(v) == IF v.typ = "HTML" THEN v.s ELSE htmlReplacer(v.s)

HTML(s)  == [typ |-> "HTML", s |-> s]      \* template.HTML(s)
Plain(s) == [typ |-> "string", s |-> s]    \* a Go string

----------------------------------------------------------------------------
(* Package constants. *)

\* const HeaderCellStyle = "cell-style".  Header ids are sequences of single
\* characters, compared byte by byte.
HeaderCellStyle == <<"c", "e", "l", "l", "-", "s", "t", "y", "l", "e">>

\* const cellStyle: the default stylesheet.
cellStyle ==
    << "<", "style", ">",
       "\n\t.cell-container {\n\t\tdisplay: flex;\n\t\tflex-direction: column;\n\t}\n\tdetails.cell {\n\t\tborder: 1px solid #aaa;\n\t\tborder-radius: 4px;\n\t\tpadding: 0.5em 0.5em 0;\n\t\tdisplay: block;\n\t}\n\tdetails.cell ",
       ">",
       " summary {\n\t\tfont-weight: bold;\n\t\tmargin: -0.5em -0.5em 0;\n\t\tpadding: 0.5em;\n\t}\n\tdetails[open].cell {\n\t\tpadding: 0.5em;\n\t}\n\tdetails[open].cell ",
       ">",
       " summary {\n\t\tborder-bottom: 1px solid #aaa;\n\t\tmargin-bottom: 0.5em;\n\t}\n",
       "<", "/style", ">" >>

----------------------------------------------------------------------------
(* The standard library functions the package calls. *)

\* A mutant of BufferWrite: the buffer is reset before the write.
BufferOverwrite(buf, p) == p

\* bytes.Buffer.Write / WriteString: the bytes are appended to the buffer.
BufferWrite(buf, p) == buf \o p

\* fmt: an operand is a string (Plain) or a number, with its printed text.
Num(s) == [typ |-> "int", s |-> s]

RECURSIVE doPrint(_, _, _)
\* fmt's (*pp).doPrint: the operands in order, a space between two operands
\* when neither is a string (prevString starts false, and no space is added
\* before operand 0).
doPrint(a, argNum, prevString) ==
    IF a = <<>> THEN <<>>
    ELSE LET isString == Head(a).typ = "string"
         IN  (IF argNum > 0 /\ ~isString /\ ~prevString THEN <<" ">> ELSE <<>>)
             \o Head(a).s \o doPrint(Tail(a), argNum + 1, isString)

\* fmt.Sprint(a...), the text fmt.Fprint writes.
Sprint(a) == doPrint(a, 0, FALSE)

RECURSIVE doPrintln(_, _)
\* fmt's (*pp).doPrintln: a space between operands, always, and a newline.
doPrintln(a, argNum) ==
    IF a = <<>> THEN <<"\n">>
    ELSE (IF argNum > 0 THEN <<" ">> ELSE <<>>) \o Head(a).s
         \o doPrintln(Tail(a), argNum + 1)

\* fmt.Sprintln(a...), the text fmt.Fprintln writes.
Sprintln(a) == doPrintln(a, 0)

RECURSIVE extraOperands(_, _)
\* The operands a format did not use, as fmt reports them.
extraOperands(a, first) ==
    IF a = <<>> THEN <<>>
    ELSE (IF first THEN <<>> ELSE <<", ">>)
         \o <<Head(a).typ, "=">> \o Head(a).s \o extraOperands(Tail(a), FALSE)

RECURSIVE doPrintf(_, _)
\* fmt's (*pp).doPrintf for a format whose tokens are literal text, the verb
\* "%v" and "%%": a verb prints the next operand, or %!v(MISSING) when there
\* is none; operands left over are reported as %!(EXTRA ...).
doPrintf(format, a) ==
    IF format = <<>>
    THEN IF a = <<>> THEN <<>>
         ELSE <<"%!(EXTRA ">> \o extraOperands(a, TRUE) \o <<")">>
    ELSE CASE Head(format) = "%%" -> <<"%">> \o doPrintf(Tail(format), a)
           [] Head(format) = "%v" ->
                IF a = <<>> THEN <<"%!v(MISSING)">> \o doPrintf(Tail(format), a)
                ELSE Head(a).s \o doPrintf(Tail(format), Tail(a))
           [] OTHER -> <<Head(format)>> \o doPrintf(Tail(format), a)

\* fmt.Sprintf(format, a...), the text fmt.Fprintf writes.
Sprintf(format, a) == doPrintf(format, a)

RECURSIVE trimSlashes(_)
trimSlashes(p) ==
    IF p # <<>> /\ Last(p) = "/" THEN trimSlashes(SubSeq(p, 1, Len(p) - 1)) ELSE p

RECURSIVE afterLastSlash(_, _)
afterLastSlash(p, i) ==
    IF i = 0 THEN p
    ELSE IF p[i] = "/" THEN SubSeq(p, i + 1, Len(p)) ELSE afterLastSlash(p, i - 1)

\* path.Base: the last element of a path; "." for the empty path and "/" for
\* a path of slashes only.
Base(p) ==
    IF p = <<>> THEN <<".">>
    ELSE LET q == trimSlashes(p)
             r == afterLastSlash(q, Len(q))
         IN  IF r = <<>> THEN <<"/">> ELSE r

\* strings.isSeparator, on the tokens of a program name: a token is a
\* separator character or a run of letters.
isSeparator(tok) == tok \in {" ", ".", "/", "-"}

\* unicode.ToTitle of a run's first letter.
ToTitle(tok) ==
    CASE tok = "notebook" -> "Notebook"
      [] tok = "test"     -> "Test"
      [] tok = "sim"      -> "Sim"
      [] OTHER            -> tok

RECURSIVE titleMap(_, _)
titleMap(s, prevSep) ==
    IF s = <<>> THEN <<>>
    ELSE <<IF prevSep THEN ToTitle(Head(s)) ELSE Head(s)>>
         \o titleMap(Tail(s), isSeparator(Head(s)))

\* strings.Title: the letter that begins each word mapped to its title case
\* (prev starts as ' ', a separator).
StringsTitle(s) == titleMap(s, TRUE)

----------------------------------------------------------------------------
(* Inputs. *)

\* os.Args[0]
ProgArgs == { <<".", "/", "notebook", ".", "test">> }

\* Values assigned to the exported field Title.
TitleInputs == { <<>>, <<"R", "&", "D">> }

\* AddContent(title, content)
CellInputs ==
    { [title |-> <<"Plot">>,
       content |-> <<"<", "p", ">", "1 ", "&", " 2", "<", "/p", ">">>],
      [title |-> <<"a ", "<", " b">>, content |-> <<>>] }

\* AddHeader(id, content)
HeaderInputs ==
    { [id |-> HeaderCellStyle, content |-> <<>>],
      [id |-> <<"c", "e">>, content |-> <<>>],
      [id |-> <<"c", "e">>,
       content |-> <<"<", "meta charset=", "\"", "utf-8", "\"", ">">>],
      [id |-> <<"d">>, content |-> <<"<", "base href=", "'", "/", "'", ">">>] }

PrintOperands   == { <<Plain(<<"Hello world">>)>> }
PrintlnOperands == { <<Plain(<<"<", "b", ">">>), Num(<<"1">>), Num(<<"2">>)>> }
PrintfInputs    == { [format |-> <<"%v", "<", "%%">>, a |-> <<Plain(<<"x", "&", "y">>)>>] }

----------------------------------------------------------------------------
(* Construction. *)

\* func newCell
newCell == [content |-> <<>>, Title |-> <<>>]

\* A mutant of New: no default header is registered.
NewBare(args0) ==
    LET name == Base(args0)
    IN  [ Output  |-> name \o <<".html">>,
          Title   |-> StringsTitle(name),
          cells   |-> <<>>,
          headers |-> <<>>,
          console |-> <<>> ]

\* func New: Output and Title from the program's name, the default header.
New(args0) ==
    LET name == Base(args0)
    IN  [ Output  |-> name \o <<".html">>,
          Title   |-> StringsTitle(name),
          cells   |-> <<>>,
          headers |-> (HeaderCellStyle :> cellStyle),
          console |-> <<>> ]

\* The state after nb := New().
Init ==
    \E args0 \in ProgArgs :
        LET nb == New(args0)
        IN  /\ Title = nb.Title
            /\ Output = nb.Output
            /\ cells = nb.cells
            /\ headers = nb.headers
            /\ console = nb.console
            /\ out = <<>>
            /\ err = <<>>
            /\ op = "New"
            /\ ioFail = {}
            /\ cellCalls = <<>>
            /\ hdrCalls = <<>>
            /\ printed = <<>>

----------------------------------------------------------------------------
(* The mutators. *)

\* The calls recorded so far.
Calls == Len(cellCalls) + Len(hdrCalls) + Len(printed)

\* What every mutation does to the observation of the sinks: the output of
\* an earlier Render says nothing about the document any more.
Touched ==
    /\ out' = <<>>
    /\ err' = <<>>
    /\ op' = "Update"
    /\ ioFail' = {}

\* nb.Title = t, by the caller (the field is exported).
SetTitle(t) ==
    /\ Title' = t
    /\ Touched
    /\ UNCHANGED <<Output, cells, headers, console, hist>>

\* A mutant of AddContent: the new cell is put first.
AddContentFirst(title, content) ==
    /\ Calls < MaxCalls
    /\ LET cell == [newCell EXCEPT !.Title = title,
                                   !.content = BufferWrite(@, content)]
       IN  cells' = <<cell>> \o cells
    /\ cellCalls' = Append(cellCalls, [title |-> title, content |-> content])
    /\ Touched
    /\ UNCHANGED <<Title, Output, headers, console, hdrCalls, printed>>

\* func (nb *Notebook) AddContent
AddContent(title, content) ==
    /\ Calls < MaxCalls
    /\ LET cell == [newCell EXCEPT !.Title = title,
                                   !.content = BufferWrite(@, content)]
       IN  cells' = Append(cells, cell)
    /\ cellCalls' = Append(cellCalls, [title |-> title, content |-> content])
    /\ Touched
    /\ UNCHANGED <<Title, Output, headers, console, hdrCalls, printed>>

\* A mutant of AddHeader: "once per ID", the value of a present id is kept.
AddHeaderOnce(id, content) ==
    /\ Calls < MaxCalls
    /\ headers' = headers @@ (id :> content)
    /\ hdrCalls' = Append(hdrCalls, [id |-> id, content |-> content])
    /\ Touched
    /\ UNCHANGED <<Title, Output, cells, console, cellCalls, printed>>

\* func (nb *Notebook) AddHeader.  New never leaves the map nil, so that
\* make is not called; the assignment overwrites the value of a present id.
AddHeader(id, content) ==
    /\ Calls < MaxCalls
    /\ headers' = (id :> content) @@ headers
    /\ hdrCalls' = Append(hdrCalls, [id |-> id, content |-> content])
    /\ Touched
    /\ UNCHANGED <<Title, Output, cells, console, cellCalls, printed>>

\* func (nb *Notebook) Print (fmt.Fprint into the console)
NbPrint(a) ==
    /\ Calls < MaxCalls
    /\ console' = BufferWrite(console, Sprint(a))
    /\ printed' = Append(printed, [fn |-> "Print", text |-> Sprint(a)])
    /\ Touched
    /\ UNCHANGED <<Title, Output, cells, headers, cellCalls, hdrCalls>>

\* func (nb *Notebook) Printf (fmt.Fprintf into the console)
Printf(format, a) ==
    /\ Calls < MaxCalls
    /\ console' = BufferWrite(console, Sprintf(format, a))
    /\ printed' = Append(printed, [fn |-> "Printf", text |-> Sprintf(format, a)])
    /\ Touched
    /\ UNCHANGED <<Title, Output, cells, headers, cellCalls, hdrCalls>>

\* func (nb *Notebook) Println (fmt.Fprintln into the console)
Println(a) ==
    /\ Calls < MaxCalls
    /\ console' = BufferWrite(console, Sprintln(a))
    /\ printed' = Append(printed, [fn |-> "Println", text |-> Sprintln(a)])
    /\ Touched
    /\ UNCHANGED <<Title, Output, cells, headers, cellCalls, hdrCalls>>

----------------------------------------------------------------------------
(* The view and the template. *)

\* The byte values of the characters of the header ids.
Ord ==
    ("-" :> 45) @@ ("c" :> 99) @@ ("d" :> 100) @@ ("e" :> 101) @@
    ("l" :> 108) @@ ("s" :> 115) @@ ("t" :> 116) @@ ("y" :> 121)

RECURSIVE StringLess(_, _)
\* a < b on Go strings: byte-wise lexicographic, a proper prefix first.
StringLess(a, b) ==
    IF b = <<>> THEN FALSE
    ELSE IF a = <<>> THEN TRUE
    ELSE IF Ord[Head(a)] # Ord[Head(b)] THEN Ord[Head(a)] < Ord[Head(b)]
    ELSE StringLess(Tail(a), Tail(b))

RECURSIVE insertSorted(_, _)
insertSorted(sorted, k) ==
    IF sorted = <<>> THEN <<k>>
    ELSE IF StringLess(k, Last(sorted))
         THEN Append(insertSorted(SubSeq(sorted, 1, Len(sorted) - 1), k), Last(sorted))
         ELSE Append(sorted, k)

RECURSIVE insertionSort(_, _)
insertionSort(keys, i) ==
    IF i > Len(keys) THEN <<>>
    ELSE insertSorted(insertionSort(keys, i + 1), keys[Len(keys) + 1 - i])

\* A mutant of SlicesSort: the keys stay in the order the map yielded them.
SlicesSortNot(keys) == keys

\* slices.Sort(keys): ascending order (an insertion sort, as pdqsort does
\* for fewer than 12 elements).
SlicesSort(keys) == insertionSort(keys, 1)

\* The orders in which ranging over a map may yield its keys: any.
MapIterations(m) ==
    LET n == Cardinality(DOMAIN m)
    IN  { s \in [1..n -> DOMAIN m] : \A i, j \in 1..n : s[i] = s[j] => i = j }

\* A mutant of Headers: the fragments in the order of the map's iteration.
HeadersUnsorted(iter) == [i \in 1..Len(iter) |-> HTML(headers[iter[i]])]

\* func (nbv nbView) Headers, with iter the order maps.Keys yields the keys in.
Headers(iter) ==
    LET keys == SlicesSort(iter)
    IN  [i \in 1..Len(keys) |-> HTML(headers[keys[i]])]

\* func (c *cell) Content
Content(c) == HTML(c.content)

\* func (nbv nbView) Cells
Cells == cells

\* func (nbv nbView) Console
Console == Plain(console)

\* The text nodes of nbTemplate, after the trim markers {{- and -}}.
tHead        == "<!DOCTYPE html>\n<html>\n\t<head>"
tTitleOpen   == "<title>"
tTitleClose  == "</title>"
tBody        == "</head>\n\t<body>\n\t\t"
tH1Open      == "<h1>"
tH1Close     == "</h1>"
tContainer   == "\n\t\t<div class=\"cell-container\">"
tCellOpen    == "\n\t\t\t<details open class=\"cell\">\n\t\t\t\t<summary>"
tCellMid     == "</summary>\n\t\t\t\t"
tCellClose   == "\n\t\t\t</details>"
tConsoleOpen == "\n\t\t\t<details open class=\"cell\">\n\t\t\t\t<summary>Console</summary>\n\t\t\t\t<pre>"
tTail        == "</pre>\n\t\t\t</details>\n\t\t</div>\n\t</body>\n</html>"

\* A text node: one write of its text.
Text(t) == << <<t>> >>

\* An action {{pipeline}}: one write of the escaped value.
Action(v) == << htmlEscaper(v) >>

\* A mutant of With: the body whatever the value.
WithAlways(v, body) == body

\* {{with pipeline}}body{{end}}: the body when the value is not empty.
With(v, body) == IF v.s = <<>> THEN <<>> ELSE body

\* {{range .Cells}}: the writes of one cell.
CellWrites(c) ==
    Text(tCellOpen) \o Action(Plain(c.Title)) \o Text(tCellMid)
    \o Action(Content(c)) \o Text(tCellClose)

\* var nbTemplate, executed on nbView{nb}: the writes, in order.
nbTemplate(iter) ==
    LET hs == Headers(iter)
    IN  Text(tHead)
        \o With(Plain(Title),
                Text(tTitleOpen) \o Action(Plain(Title)) \o Text(tTitleClose))
        \o Concat([i \in 1..Len(hs) |-> Action(hs[i])])
        \o Text(tBody)
        \o With(Plain(Title),
                Text(tH1Open) \o Action(Plain(Title)) \o Text(tH1Close))
        \o Text(tContainer)
        \o Concat([i \in 1..Len(Cells) |-> CellWrites(Cells[i])])
        \o Text(tConsoleOpen) \o Action(Console) \o Text(tTail)

\* template.Execute into a sink w that rejects its w-th write (0: none):
\* the writes before the rejected one reach the sink, and the sink's error
\* is returned as it is.
Execute(w, ws) ==
    IF w = 0 \/ w > Len(ws)
    THEN [out |-> ws, err |-> <<>>]
    ELSE [out |-> SubSeq(ws, 1, w - 1), err |-> <<"write rejected">>]

Sinks == 0..MaxFailAt

----------------------------------------------------------------------------
(* Render and Close. *)

\* A mutant of Render: Console reads the buffer, which drains it.
RenderDraining(iter) ==
    LET ws == nbTemplate(iter)
    IN  \E w \in Sinks :
          LET r == Execute(w, ws)
          IN  /\ out' = r.out
              /\ err' = r.err
              /\ op' = "Render"
              /\ ioFail' = IF r.err # <<>> THEN {"write"} ELSE {}
              /\ console' = <<>>
              /\ UNCHANGED <<Title, Output, cells, headers, hist>>

\* func (nb *Notebook) Render, into any sink w, with iter the order in which
\* the map yields its keys during this call.
Render(iter) ==
    LET ws == nbTemplate(iter)
    IN  \E w \in Sinks :
          LET r == Execute(w, ws)
          IN  /\ out' = r.out
              /\ err' = r.err
              /\ op' = "Render"
              /\ ioFail' = IF r.err # <<>> THEN {"write"} ELSE {}
              /\ UNCHANGED <<doc, hist>>

\* fmt.Errorf("cannot create output file %q", nb.Output): no %w, nothing is
\* wrapped.
CreateError == << "cannot create output file \"" \o Str(Output) \o "\"" >>

\* fmt.Errorf("cannot render notebook: %w", err): err is wrapped.
RenderError(e) == << "cannot render notebook: " \o Head(e) >> \o e

\* func (nb *Notebook) Close.  The environment fails os.Create
\* (createFails), a write to the file (w) or the deferred f.Close
\* (closeFails), whose result the defer statement drops.  os.Create creates
\* or truncates the file at Output, and out is its content when Close
\* returns.
Close(iter) ==
    /\ op' = "Close"
    /\ UNCHANGED <<doc, hist>>
    /\ \E createFails \in BOOLEAN :
         IF createFails
         THEN /\ err' = CreateError
              /\ out' = <<>>
              /\ ioFail' = {"create"}
         ELSE LET ws == nbTemplate(iter)
              IN  \E w \in Sinks, closeFails \in BOOLEAN :
                    LET r == Execute(w, ws)
                    IN  /\ out' = r.out
                        /\ err' = IF r.err # <<>> THEN RenderError(r.err) ELSE <<>>
                        /\ ioFail' = (IF r.err # <<>> THEN {"write"} ELSE {})
                                     \cup (IF closeFails THEN {"close"} ELSE {})

----------------------------------------------------------------------------
Next ==
    \/ \E t \in TitleInputs : SetTitle(t)
    \/ \E i \in CellInputs : AddContent(i.title, i.content)
    \/ \E i \in HeaderInputs : AddHeader(i.id, i.content)
    \/ \E a \in PrintOperands : NbPrint(a)
    \/ \E i \in PrintfInputs : Printf(i.format, i.a)
    \/ \E a \in PrintlnOperands : Println(a)
    \/ \E iter \in MapIterations(headers) : Render(iter)
    \/ \E iter \in MapIterations(headers) : Close(iter)

Spec == Init /\ [][Next]_vars

----------------------------------------------------------------------------
(* Reading a rendering back. *)

\* The template was executed by the latest call.
Rendered == op \in {"Render", "Close"} /\ "create" \notin ioFail

\* ... and every write reached the sink.
RenderedOK == Rendered /\ "write" \notin ioFail

\* The characters html/template never leaves raw in escaped text.
SpecialChars == {"<", ">", "&", "\"", "'", "+"}

\* Escaped text as an HTML reader takes it: each character reference stands
\* for its character.
EntityDecode(t) ==
    [i \in 1..Len(t) |->
        CASE t[i] = "&lt;"  -> "<"
          [] t[i] = "&gt;"  -> ">"
          [] t[i] = "&amp;" -> "&"
          [] t[i] = "&#34;" -> "\""
          [] t[i] = "&#39;" -> "'"
          [] t[i] = "&#43;" -> "+"
          [] OTHER          -> t[i]]

\* The positions of the writes of text node t.
Positions(ws, t) == {i \in 1..Len(ws) : ws[i] = <<t>>}

\* The writes between the opening of the head (and its title element, when
\* there is one) and the text node that closes the head.
HeadFragments(ws) ==
    LET first == IF Len(ws) >= 2 /\ ws[2] = <<tTitleOpen>> THEN 5 ELSE 2
        close == CHOOSE i \in Positions(ws, tBody) :
                     \A j \in Positions(ws, tBody) : i <= j
    IN  SubSeq(ws, first, close - 1)

RECURSIVE CellBlocksFrom(_, _)
CellBlocksFrom(ws, i) ==
    IF i > Len(ws) THEN <<>>
    ELSE IF ws[i] = <<tCellOpen>>
         THEN << [summary |-> ws[i + 1], body |-> ws[i + 3],
                  closed |-> ws[i + 2] = <<tCellMid>> /\ ws[i + 4] = <<tCellClose>>] >>
              \o CellBlocksFrom(ws, i + 5)
         ELSE CellBlocksFrom(ws, i + 1)

\* The cell blocks of a complete rendering, in the order of the output.
CellBlocks(ws) == CellBlocksFrom(ws, 1)

\* a < b, byte-wise lexicographic: at the first position where they differ
\* a has the smaller byte, or a ends there and b does not.
LexLess(a, b) ==
    \E k \in 1..(Len(b)) :
        /\ k <= Len(a) + 1
        /\ \A j \in 1..(k - 1) : a[j] = b[j]
        /\ (k = Len(a) + 1 \/ Ord[a[k]] < Ord[b[k]])

\* The value of the latest AddHeader call for id.
LatestHeader(id) ==
    LET is == {i \in 1..Len(hdrCalls) : hdrCalls[i].id = id}
        i  == CHOOSE i \in is : \A j \in is : j <= i
    IN  hdrCalls[i].content

----------------------------------------------------------------------------
(* The claims. *)

\* C1: a complete rendering holds exactly one cell block per AddContent
\* call, in call order; block k shows the title of call k (escaped, so that
\* it reads as the title) and holds the content of call k.
C1_CellOrder ==
    RenderedOK =>
        LET bs == CellBlocks(out)
        IN  /\ Len(bs) = Len(cellCalls)
            /\ \A k \in 1..Len(bs) :
                 /\ bs[k].closed
                 /\ EntityDecode(bs[k].summary) = cellCalls[k].title
                 /\ bs[k].body = cellCalls[k].content

\* C1's case: two AddContent calls with distinct titles, interleaved with
\* another mutator, rendered.
C1_Witness ==
    /\ RenderedOK
    /\ Len(cellCalls) = 2
    /\ cellCalls[1].title # cellCalls[2].title
    /\ Len(hdrCalls) + Len(printed) = 1

\* C2: the head fragments of a complete rendering are the fragments of the
\* registered ids in ascending lexicographic order of id.
C2_HeaderOrder ==
    RenderedOK =>
        \E ks \in MapIterations(headers) :
            /\ \A i, j \in 1..Len(ks) : i < j => LexLess(ks[i], ks[j])
            /\ HeadFragments(out) = [i \in 1..Len(ks) |-> headers[ks[i]]]

\* C2's case: three ids, inserted in descending order, rendered.
C2_Witness ==
    /\ RenderedOK
    /\ Cardinality(DOMAIN headers) = 3
    /\ Len(hdrCalls) = 2
    /\ LexLess(hdrCalls[2].id, hdrCalls[1].id)
    /\ LexLess(hdrCalls[2].id, HeaderCellStyle)

\* C3: the header mapping holds one fragment per id: that of the latest
\* AddHeader call for the id (for an id never passed to AddHeader, the
\* default New registered), and a complete rendering holds exactly one
\* fragment per id, that one.
C3_LastWriteWins ==
    /\ DOMAIN headers = {HeaderCellStyle} \cup {hdrCalls[i].id : i \in 1..Len(hdrCalls)}
    /\ \A id \in DOMAIN headers :
         IF \E i \in 1..Len(hdrCalls) : hdrCalls[i].id = id
         THEN headers[id] = LatestHeader(id)
         ELSE headers[id] = cellStyle
    /\ RenderedOK =>
         \E ks \in MapIterations(headers) :
             HeadFragments(out) =
                 [i \in 1..Len(ks) |->
                     IF \E j \in 1..Len(hdrCalls) : hdrCalls[j].id = ks[i]
                     THEN LatestHeader(ks[i]) ELSE cellStyle]

\* C3's case: AddHeader twice with the same id and different fragments.
C3_Witness ==
    /\ RenderedOK
    /\ Len(hdrCalls) = 2
    /\ hdrCalls[1].id = hdrCalls[2].id
    /\ hdrCalls[1].content # hdrCalls[2].content

IsPrefix(a, b) == Len(a) <= Len(b) /\ a = SubSeq(b, 1, Len(a))

\* C4: two executions of the template with no mutation in between hand the
\* same bytes to their sinks: equal outputs when both sinks accept every
\* write, and the accepted output of a rejecting sink is the beginning of
\* the other's.
C4_RenderIdempotent ==
    [][ (Rendered /\ Rendered') =>
            /\ (RenderedOK /\ RenderedOK') => Bytes(out') = Bytes(out)
            /\ (IsPrefix(out, out') \/ IsPrefix(out', out)) ]_vars

\* C4's case: a document with a cell, two headers and console text has
\* been rendered, completely, and is unmutated.
C4_Witness ==
    /\ op = "Render"
    /\ RenderedOK
    /\ Cardinality(DOMAIN headers) = 2
    /\ cells # <<>>
    /\ console # <<>>

\* C5: a step of Render or Close leaves the document as it was, whatever it
\* returns.
C5_RenderFrame ==
    [][ op' \in {"Render", "Close"} =>
            UNCHANGED <<Title, Output, cells, headers, console>> ]_vars

\* C5's case: Render returned an error on a document with cells and
\* console text.
C5_Witness ==
    /\ op = "Render"
    /\ err # <<>>
    /\ cells # <<>>
    /\ console # <<>>

\* C6: in a complete rendering the console block holds no raw special
\* character and reads as the console text, while every cell block holds its
\* content byte for byte.
C6_EscapingAsymmetry ==
    RenderedOK =>
        LET pre == out[Len(out) - 1]
            bs  == CellBlocks(out)
        IN  /\ \A i \in 1..Len(pre) : pre[i] \notin SpecialChars
            /\ EntityDecode(pre) = console
            /\ Len(bs) = Len(cells)
            /\ \A k \in 1..Len(bs) : bs[k].body = cells[k].content

\* C6's case: the console and a cell content both hold < and &.
C6_Witness ==
    /\ RenderedOK
    /\ \E i, j \in 1..Len(console) : console[i] = "<" /\ console[j] = "&"
    /\ \E k \in 1..Len(cells) :
         \E i, j \in 1..Len(cells[k].content) :
             cells[k].content[i] = "<" /\ cells[k].content[j] = "&"

\* C7: a complete rendering holds the <title> element and the <h1> heading
\* exactly when Title is not empty, each once and showing the title.
C7_TitleSuppression ==
    RenderedOK =>
        LET close == CHOOSE i \in Positions(out, tBody) : TRUE
        IN  IF Title = <<>>
            THEN \A t \in {tTitleOpen, tTitleClose, tH1Open, tH1Close} :
                     Positions(out, t) = {}
            ELSE /\ Positions(out, tTitleOpen) = {2}
                 /\ EntityDecode(out[3]) = Title
                 /\ \A i \in 1..Len(out[3]) : out[3][i] \notin SpecialChars
                 /\ Positions(out, tTitleClose) = {4}
                 /\ Positions(out, tH1Open) = {close + 1}
                 /\ EntityDecode(out[close + 2]) = Title
                 /\ \A i \in 1..Len(out[close + 2]) : out[close + 2][i] \notin SpecialChars
                 /\ Positions(out, tH1Close) = {close + 3}

\* C7's case: a document with an empty Title, rendered.
C7_Witness == RenderedOK /\ Title = <<>> /\ cells # <<>>

\* C8: the console holds the texts of the Print, Printf and Println calls
\* in call order, a Println text ending in a newline; a complete rendering
\* holds one Console block, after every cell block, showing that text.
C8_ConsoleStream ==
    /\ console = Concat([k \in 1..Len(printed) |-> printed[k].text])
    /\ \A k \in 1..Len(printed) :
         printed[k].fn = "Println" => Last(printed[k].text) = "\n"
    /\ RenderedOK =>
         /\ Positions(out, tConsoleOpen) = {Len(out) - 2}
         /\ \A i \in Positions(out, tCellOpen) : i < Len(out) - 2
         /\ Len(CellBlocks(out)) = Len(cells)
         /\ EntityDecode(out[Len(out) - 1]) = console
         /\ out[Len(out)] = <<tTail>>

\* C8's case: two console calls, one a Println, around an AddContent.
C8_Witness ==
    /\ RenderedOK
    /\ Len(printed) = 2
    /\ printed[2].fn = "Println"
    /\ Len(cells) = 1

\* C9: Render returns an error exactly when the sink rejected a write;
\* Close returns an error, wrapping the failure, exactly when the creation
\* of the file, a write or the close failed.
C9_FailuresSurfaced ==
    /\ op = "Render" => (err # <<>> <=> "write" \in ioFail)
    /\ op = "Close" =>
         /\ err # <<>> <=> ioFail # {}
         /\ err # <<>> => Len(err) > 1

\* The title of the document in the example's scenario, as the example's
\* output shows it.
C10_ShownTitle ==
    CASE Title = <<"Notebook", ".", "Test">> -> "Notebook.Test"
      [] Title = <<"R", "&", "D">>           -> "R&amp;D"
      [] OTHER                               -> ""

\* The output of ExampleNew_Simple, for a title t ("": no title).
C10_ExampleOutput(t) ==
    "<!DOCTYPE html>\n<html>\n\t<head>"
    \o (IF t = "" THEN "" ELSE "<title>" \o t \o "</title>")
    \o "</head>\n\t<body>\n\t\t"
    \o (IF t = "" THEN "" ELSE "<h1>" \o t \o "</h1>")
    \o "\n\t\t<div class=\"cell-container\">"
    \o "\n\t\t\t<details open class=\"cell\">"
    \o "\n\t\t\t\t<summary>Console</summary>"
    \o "\n\t\t\t\t<pre>Hello world</pre>"
    \o "\n\t\t\t</details>\n\t\t</div>\n\t</body>\n</html>"

\* The example's calls: Print("Hello world") and AddHeader(HeaderCellStyle, "").
C10_Scenario ==
    /\ cellCalls = <<>>
    /\ hdrCalls = << [id |-> HeaderCellStyle, content |-> <<>>] >>
    /\ printed = << [fn |-> "Print", text |-> <<"Hello world">>] >>

\* C10: New's document has no cell, an empty console and the one header
\* cell-style, the default stylesheet; after Print("Hello world") and
\* AddHeader(HeaderCellStyle, "") a complete rendering is the example's
\* output: no stylesheet, no content cell, one Console block with
\* Hello world.
C10_NewAndExample ==
    /\ op = "New" =>
         /\ cells = <<>>
         /\ console = <<>>
         /\ DOMAIN headers = {HeaderCellStyle}
         /\ headers[HeaderCellStyle] = cellStyle
    /\ (C10_Scenario /\ RenderedOK) =>
         Bytes(out) = C10_ExampleOutput(C10_ShownTitle)

\* C10's case: the example, rendered with the title New derived.
C10_Witness ==
    /\ C10_Scenario
    /\ op = "Render"
    /\ RenderedOK
    /\ Title = <<"Notebook", ".", "Test">>

============================================================================
